---------------------------- MODULE Spec2Model ----------------------------
(***************************************************************************)
(* A model of the ticket subsystem of SluggoAPI: the per-team ticket       *)
(* numbering of Ticket.save (api/models/ticket.py), the ticket handlers of *)
(* TicketViewSet (api/old_views/ticket_view.py) and the tree of TicketNode *)
(* rows they keep through django-treebeard's materialised-path nodes.      *)
(*                                                                         *)
(* A TicketNode row is (ticket, path, numchild); its depth is the length   *)
(* of its path.  treebeard stores a path as fixed-width steps; here a path *)
(* is the sequence of those steps as numbers.  The tree calls the handlers *)
(* make (add_root, add_child, move, is_root, get_children) are modelled by *)
(* what treebeard's MP_Node does with paths and numchild.                  *)
(*                                                                         *)
(* The permission classes of the handlers live in api/old_views/team_base, *)
(* which is not part of the sources; every request modelled here is one    *)
(* that passes them.                                                       *)
(***************************************************************************)
EXTENDS Integers, Sequences, FiniteSets, TLC

\* The rows the model draws on: two teams (so that a parent can be of another
\* team), one user, two workers.
Teams == {1, 2}
Users == {1}
Procs == {1, 2}

\* The users where it matters who asks: two that own and are assigned
\* tickets.
TeamUsers == {1, 2}

\* The Tag and TicketStatus rows the teams have made.
TagIds == {1, 2, 3}
StatusIds == {1}

\* Bounds of the model: the tickets created and the value a counter reaches
\* when requests are handled one at a time, and when saves are interleaved.
MaxTickets == 3
MaxHead == 4
MaxConcTickets == 2
MaxConcHead == 3
\* The tickets created and the TicketTag rows ever inserted where tag lists
\* are reconciled.
MaxTagTickets == 2
MaxTagRows == 3
\* The tickets created and the value a counter reaches where the tickets of
\* a user are listed.
MaxListTickets == 2
MaxListHead == 3

\* Primary keys start at 1; 0 stands for a key that is not given (None).
NoId == 0
\* The primary keys of the rows that can exist.
TicketIds == 1..MaxTickets

VARIABLES
    ticket_head,     \* Team.ticket_head of every team row
    tickets,         \* the Ticket table: tickets[pk] is the row with primary key pk
    nodes,           \* the TicketNode table: a set of rows (ticket, path, numchild)
    response,        \* the request handled last and the response it got
    prev_nodes,      \* history: the TicketNode table before the last request
    created_number,  \* history: created_number[pk] is the number pk got when created
    failed_creates,  \* history: tickets whose create_record was not answered 201
    saves,           \* the Ticket.save calls in flight, one slot per worker
    ticket_tags,     \* the TicketTag table: a set of rows (id, ticket, tag)
    tag_seq,         \* the id the TicketTag table handed out last
    statuses,        \* the primary keys of the TicketStatus rows
    tags,            \* the primary keys of the Tag rows
    attaching        \* the _add_subticket calls in flight, one slot per worker

\* The tables of tags and statuses, and the attachments in flight.
others == <<ticket_tags, tag_seq, statuses, tags, attaching>>

vars == <<ticket_head, tickets, nodes, response, prev_nodes, created_number,
          failed_creates, saves, ticket_tags, tag_seq, statuses, tags,
          attaching>>

(***************************************************************************)
(* treebeard's materialised-path tree over the TicketNode rows.            *)
(***************************************************************************)
Max(S) == CHOOSE x \in S : \A y \in S : y <= x

Node(t, p, n) == [ticket |-> t, path |-> p, numchild |-> n]

IsPrefix(p, q) == Len(p) <= Len(q) /\ SubSeq(q, 1, Len(p)) = p

BasePath(p) == SubSeq(p, 1, Len(p) - 1)

LastStep(p) == p[Len(p)]

IncPath(p) == [p EXCEPT ![Len(p)] = p[Len(p)] + 1]

depth(n) == Len(n.path)

\* A slip of is_root that also takes the rows at depth 2 for roots.
is_root_shallow(n) == depth(n) <= 2

is_root(n) == depth(n) = 1

is_leaf(n) == n.numchild = 0

is_descendant_of(n, m) == IsPrefix(m.path, n.path) /\ depth(n) > depth(m)

\* The rows one level below path p, whatever numchild says.
RowsBelow(N, p) == {c \in N : Len(c.path) = Len(p) + 1 /\ IsPrefix(p, c.path)}

\* The order of the path column: a prefix sorts before its extensions, and
\* otherwise the first step that differs decides.
PathLess(p, q) ==
    \/ IsPrefix(p, q) /\ p # q
    \/ \E k \in 1..Len(p) :
          /\ k <= Len(q)
          /\ SubSeq(p, 1, k - 1) = SubSeq(q, 1, k - 1)
          /\ p[k] < q[k]

\* A set of rows as the sequence ordered by path.
ByPath(S) ==
    IF S = {} THEN <<>>
    ELSE CHOOSE s \in [1..Cardinality(S) -> S] :
            \A i, j \in 1..Cardinality(S) :
                i < j => PathLess(s[i].path, s[j].path)

get_children(N, n) == IF is_leaf(n) THEN <<>> ELSE ByPath(RowsBelow(N, n.path))

get_siblings(N, n) == ByPath(RowsBelow(N, BasePath(n.path)))

get_ancestors(N, n) ==
    ByPath({m \in N : is_descendant_of(n, m)})

NodesOf(N, t) == {n \in N : n.ticket = t}

PathTaken(N, p) == \E n \in N : n.path = p

\* Node.add_root: a new row after the last root.
add_root(N, t) ==
    LET roots == RowsBelow(N, <<>>)
        newpath == IF roots = {} THEN <<1>>
                   ELSE <<Max({LastStep(r.path) : r \in roots}) + 1>>
    IN  [exc |-> "none", nodes |-> N \cup {Node(t, newpath, 0)}]

\* The numchild update treebeard issues: every row WHERE path = p.
BumpNumchild(N, p, d) ==
    {IF n.path = p THEN [n EXCEPT !.numchild = n.numchild + d] ELSE n : n \in N}

\* Node.add_child: a new row as the first child of a leaf, or after the last
\* child; the path column is unique.
add_child(N, parent, t) ==
    LET kids == get_children(N, parent)
    IN  IF ~is_leaf(parent) /\ kids = <<>>
        THEN [exc |-> "AttributeError", nodes |-> N]
        ELSE LET newpath == IF is_leaf(parent) THEN parent.path \o <<1>>
                            ELSE IncPath(kids[Len(kids)].path)
             IN  IF PathTaken(N, newpath)
                 THEN [exc |-> "IntegrityError", nodes |-> N]
                 ELSE [exc |-> "none",
                       nodes |-> BumpNumchild(N, parent.path, 1)
                                    \cup {Node(t, newpath, 0)}]


\* What the one UPDATE of a move does to the rows: every row WHERE path LIKE
\* oldpath% gets newpath in place of that prefix (depth follows the path).
NewPathOf(n, oldpath, newpath) ==
    newpath \o SubSeq(n.path, Len(oldpath) + 1, Len(n.path))

MoveBranch(N, oldpath, newpath) ==
    {IF IsPrefix(oldpath, n.path)
        THEN [n EXCEPT !.path = NewPathOf(n, oldpath, newpath)]
        ELSE n : n \in N}

\* treebeard's sanity_updates_after_move: the numchild of the old and of the
\* new parent path, after the paths were rewritten.
UpdateNumchildAfterMove(N, oldpath, newpath) ==
    LET oldparent == BasePath(oldpath)
        newparent == BasePath(newpath)
        N1 == IF oldparent # newparent /\ oldparent # <<>>
              THEN BumpNumchild(N, oldparent, -1) ELSE N
    IN  IF oldparent # newparent /\ newparent # <<>>
        THEN BumpNumchild(N1, newparent, 1) ELSE N1

\* Node.move(target, pos="last-child"): the set of outcomes.  A move to a
\* leaf target becomes "first-sibling" of the target itself with position 1,
\* a move to a target with children becomes "last-sibling" of its last
\* child; the target is then tested with is_descendant_of, which is strict.
\* The path column is unique: a rewritten path that meets the path of a row
\* the UPDATE leaves alone is an IntegrityError; when it meets only the old
\* path of a row the same UPDATE rewrites, the database decides by the order
\* in which it visits the rows.  node and target are the instances the
\* caller read; when the target's row has left its path since and the node
\* is the target, get_first_sibling finds no row (IndexError).
move(N, node, target) ==
    LET leaf == is_leaf(target)
        kids == get_children(N, target)
    IN  IF ~leaf /\ kids = <<>>
        THEN {[exc |-> "AttributeError", nodes |-> N]}
        ELSE
        LET tgt == IF leaf THEN target ELSE kids[Len(kids)]
            pos == IF leaf THEN "first-sibling" ELSE "last-sibling"
            sibs == get_siblings(N, tgt)
            newpath == IF pos = "last-sibling"
                       THEN IncPath(sibs[Len(sibs)].path)
                       ELSE target.path \o <<1>>
            oldpath == node.path
            moved == {n \in N : IsPrefix(oldpath, n.path)}
            done == [exc |-> "none",
                     nodes |-> UpdateNumchildAfterMove(
                                   MoveBranch(N, oldpath, newpath),
                                   oldpath, newpath)]
            failed == [exc |-> "IntegrityError", nodes |-> N]
        IN  IF is_descendant_of(tgt, node)
            THEN {[exc |-> "InvalidMoveToDescendant", nodes |-> N]}
            ELSE IF oldpath = tgt.path /\ sibs = <<>>
            THEN {[exc |-> "IndexError", nodes |-> N]}
            ELSE IF /\ oldpath = tgt.path
                    /\ \/ pos = "last-sibling" /\ tgt.path = sibs[Len(sibs)].path
                       \/ pos = "first-sibling" /\ tgt.path = sibs[1].path
            THEN {[exc |-> "none", nodes |-> N]}
            ELSE IF \E n \in moved, m \in N \ moved :
                        NewPathOf(n, oldpath, newpath) = m.path
            THEN {failed}
            ELSE IF \E n \in moved, m \in moved :
                        n # m /\ NewPathOf(n, oldpath, newpath) = m.path
            THEN {failed, done}
            ELSE {done}

(***************************************************************************)
(* What the handlers read of the tree.                                     *)
(***************************************************************************)
TheNode(N, t) == CHOOSE n \in NodesOf(N, t) : TRUE

\* TicketViewSet.retrieve: the ticket ids of the children of the ticket's node.
children_of(N, t) ==
    LET kids == get_children(N, TheNode(N, t))
    IN  [i \in 1..Len(kids) |-> kids[i].ticket]

ancestors_of(N, t) ==
    LET up == get_ancestors(N, TheNode(N, t))
    IN  [i \in 1..Len(up) |-> up[i].ticket]

(***************************************************************************)
(* Ticket.save: the team's counter is read, incremented and written, and   *)
(* the ticket takes the new value, on every save of a ticket.              *)
(***************************************************************************)
NextNumber(head) == head + 1

TicketRow(team, owner, assigned, number, deact) ==
    [team |-> team, owner |-> owner, assigned_user |-> assigned,
     ticket_number |-> number, deactivated |-> deact, status |-> NoId]

\* What is left at a primary key whose row was deleted: the key is not
\* handed out again.
NoRow == TicketRow(NoId, NoId, NoId, 0, FALSE)

\* The primary keys of the rows of a Ticket table.
Persisted(T) == {pk \in DOMAIN T : T[pk] # NoRow}

Exists(pk) == pk \in Persisted(tickets)

\* A tag_list of a payload: not given (None), or the tags it names.
NoTagList == [given |-> FALSE, tags |-> {}]

TagList(S) == [given |-> TRUE, tags |-> S]

TagLists == {NoTagList} \cup {TagList(S) : S \in SUBSET TagIds}

\* The primary keys a request names: those of the rows that exist and, while
\* there is one, the next key, which is the key of no row.
RequestIds == {pk \in TicketIds : pk <= Len(tickets) + 1}

Idle == [pc |-> "idle", kind |-> "none", team |-> NoId, head |-> 0,
         pk |-> NoId, row |-> TicketRow(NoId, NoId, NoId, 0, FALSE)]

\* The request handled and its response; user and role are the requester and
\* the role of the requester's Member row in the team of the object, team and
\* tag_list are of the payload, listed are the tickets a list response holds.
Resp(op, pk, parent, child, status, msg) ==
    [op |-> op, pk |-> pk, parent |-> parent, child |-> child,
     status |-> status, msg |-> msg, user |-> NoId, role |-> "none",
     team |-> NoId, tag_list |-> NoTagList, listed |-> {}]

\* No node of the table.
NoNode == Node(NoId, <<>>, 0)

\* The slot of a worker that runs no _add_subticket.
NotAttaching ==
    [pc |-> "idle", parent |-> NoId, child |-> NoId, parent_node |-> NoNode,
     child_node |-> NoNode, base |-> {}, status |-> 0, msg |-> ""]

Init ==
    /\ ticket_head = [t \in Teams |-> 0]
    /\ tickets = <<>>
    /\ nodes = {}
    /\ response = Resp("none", NoId, NoId, NoId, 200, "")
    /\ prev_nodes = {}
    /\ created_number = <<>>
    /\ failed_creates = {}
    /\ saves = [p \in Procs |-> Idle]
    /\ ticket_tags = {}
    /\ tag_seq = 0
    /\ statuses = StatusIds
    /\ tags = TagIds
    /\ attaching = [p \in Procs |-> NotAttaching]

\* The history every handled request leaves.
Handled(resp) ==
    /\ response' = resp
    /\ prev_nodes' = nodes

\* The tree part of create_record, after the ticket row pk was saved:
\* the status and the TicketNode table it leaves.
PlaceNew(T, N, pk, parent_id) ==
    IF parent_id = NoId
    THEN [status |-> 201, msg |-> "created", nodes |-> add_root(N, pk).nodes]
    ELSE IF parent_id \notin DOMAIN T \/ NodesOf(N, parent_id) = {}
    THEN [status |-> 404, msg |-> "Not found.", nodes |-> N]
    ELSE IF Cardinality(NodesOf(N, parent_id)) > 1
    THEN [status |-> 500, msg |-> "MultipleObjectsReturned", nodes |-> N]
    ELSE LET r == add_child(N, TheNode(N, parent_id), pk)
         IN  IF r.exc = "none"
             THEN [status |-> 201, msg |-> "created", nodes |-> r.nodes]
             ELSE [status |-> 500, msg |-> r.exc, nodes |-> N]

(***************************************************************************)
(* The TicketTag rows of the tickets.                                      *)
(***************************************************************************)
TagRow(id, ticket, tag) == [id |-> id, ticket |-> ticket, tag |-> tag]

TagRowsOf(rows, ticket) == {r \in rows : r.ticket = ticket}

TagsOf(rows, ticket) == {r.tag : r \in TagRowsOf(rows, ticket)}

\* TicketTag.objects.create for every tag of S, in the order of the tags:
\* each row takes the next id of the table.
NewTagRows(seq, ticket, S) ==
    {TagRow(seq + Cardinality({u \in S : u <= t}), ticket, t) : t \in S}

\* create_record's loop over the payload's tag list ("if tag_list:").
AttachTags(rows, seq, tag_list, ticket) ==
    [rows |-> rows \cup NewTagRows(seq, ticket, tag_list.tags),
     seq |-> seq + Cardinality(tag_list.tags)]

\* TicketTag.delete_difference, which the sources only call: the reconcile
\* of the design (4.3).  Without a tag list nothing changes; with one, the
\* rows of the tags that are no longer wanted are deleted, the rows of the
\* tags that stay are left alone and the new tags get new rows.
delete_difference(rows, seq, tag_list, ticket) ==
    IF ~tag_list.given
    THEN [rows |-> rows, seq |-> seq]
    ELSE LET kept == {r \in rows : r.ticket # ticket \/ r.tag \in tag_list.tags}
             new == tag_list.tags \ TagsOf(rows, ticket)
         IN  [rows |-> kept \cup NewTagRows(seq, ticket, new),
              seq |-> seq + Cardinality(new)]

\* A slip of UpdateTags that pops the list under another key and so passes
\* None on.
UpdateTagsOtherKey(rows, seq, tag_list, ticket) ==
    delete_difference(rows, seq, NoTagList, ticket)

\* TicketSerializer.update pops tag_list from the validated data and hands
\* it to delete_difference with the instance.
UpdateTags(rows, seq, tag_list, ticket) ==
    delete_difference(rows, seq, tag_list, ticket)

\* A slip of UpdateTree that moves the instance under the payload's parent.
UpdateTreeMoves(N, pk, parent) ==
    IF parent # NoId /\ NodesOf(N, parent) # {} /\ NodesOf(N, pk) # {}
    THEN (CHOOSE r \in move(N, TheNode(N, pk), TheNode(N, parent)) : TRUE).nodes
    ELSE N

\* TicketSerializer.update pops parent from the validated data and drops it
\* (the move is commented out).
UpdateTree(N, pk, parent) == N

(***************************************************************************)
(* The permission classes of TicketViewSet.  The classes themselves are in *)
(* team_base; they are taken by their names and by what the tests of the   *)
(* view expect of them.                                                    *)
(***************************************************************************)
\* Member.Roles, and "none" for a user without a Member row in the team.
Roles == {"none", "UA", "AP", "AD"}

SafeMethods == {"GET", "HEAD", "OPTIONS"}

IsAuthenticated(user) == user # NoId

IsOwnerOrReadOnly(method, user, row) == method \in SafeMethods \/ row.owner = user

IsAdminMemberOrReadOnly(method, role) == method \in SafeMethods \/ role = "AD"

IsMemberUser(role) == role \in {"AP", "AD"}

\* A slip of Permitted that leaves out the owner-or-admin class.
PermittedAnyMember(method, user, role, row) ==
    IsAuthenticated(user) /\ IsMemberUser(role)

\* permission_classes of TicketViewSet: every class of the list must allow
\* the request, the second being the union of two.
Permitted(method, user, role, row) ==
    /\ IsAuthenticated(user)
    /\ IsOwnerOrReadOnly(method, user, row) \/ IsAdminMemberOrReadOnly(method, role)
    /\ IsMemberUser(role)

\* What a detail route answers before its handler runs: 403 without a
\* signed-in user, 404 without the row, 403 when the object is refused.
Checked(method, user, role, pk) ==
    IF ~IsAuthenticated(user) THEN 403
    ELSE IF ~Exists(pk) THEN 404
    ELSE IF ~Permitted(method, user, role, tickets[pk]) THEN 403
    ELSE 200

Refusal(code) == IF code = 404 THEN "Not found." ELSE "permission denied"

\* The requester of a response.
By(resp, user, role) == [resp EXCEPT !.user = user, !.role = role]

(***************************************************************************)
(* The handlers of TicketViewSet.                                          *)
(***************************************************************************)
\* TicketViewSet.create_record.  The handler pops the parent id from the
\* validated data before serializer.save(), so the serializer only creates
\* the ticket row (through Ticket.save, which takes the number); the tags and
\* the tree node follow as separate writes, and nothing undoes the row when
\* the parent cannot be resolved or the node cannot be inserted.
create_record(team, owner, parent_id, status, tag_list) ==
    IF (status # NoId /\ status \notin statuses) \/ ~(tag_list.tags \subseteq tags)
    THEN /\ Handled([Resp("create_record", NoId, parent_id, NoId, 400,
                          "validation error")
                        EXCEPT !.user = owner, !.team = team,
                               !.tag_list = tag_list])
         /\ UNCHANGED <<ticket_head, tickets, nodes, created_number,
                        failed_creates, saves, others>>
    ELSE
    /\ Len(tickets) < MaxTickets
    /\ ticket_head[team] < MaxHead
    /\ LET pk == Len(tickets) + 1
           number == NextNumber(ticket_head[team])
           row == [TicketRow(team, owner, NoId, number, FALSE)
                      EXCEPT !.status = status]
           T == Append(tickets, row)
           tagged == AttachTags(ticket_tags, tag_seq, tag_list, pk)
           placed == PlaceNew(T, nodes, pk, parent_id)
       IN  /\ tagged.seq <= MaxTagRows
           /\ ticket_head' = [ticket_head EXCEPT ![team] = number]
           /\ tickets' = T
           /\ created_number' = Append(created_number, number)
           /\ ticket_tags' = tagged.rows
           /\ tag_seq' = tagged.seq
           /\ nodes' = placed.nodes
           /\ failed_creates' = IF placed.status = 201 THEN failed_creates
                                ELSE failed_creates \cup {pk}
           /\ Handled([Resp("create_record", pk, parent_id, pk,
                            placed.status, placed.msg)
                          EXCEPT !.user = owner, !.team = team,
                                 !.tag_list = tag_list])
    /\ UNCHANGED <<saves, statuses, tags, attaching>>

\* create_record with a payload that names no status and no tags.
CreateRecord(team, owner, parent_id) ==
    create_record(team, owner, parent_id, NoId, NoTagList)

\* Ticket.save on a row that exists: the counter moves and the row is
\* renumbered, whatever the save was for.
SaveExisting(pk, row) ==
    LET team == row.team
        number == NextNumber(ticket_head[team])
    IN  /\ ticket_head' = [ticket_head EXCEPT ![team] = number]
        /\ tickets' = [tickets EXCEPT ![pk] = [row EXCEPT !.ticket_number = number]]

\* The same on the row pk of the table T, which becomes the Ticket table.
SaveRowOf(T, pk) ==
    LET team == T[pk].team
        number == NextNumber(ticket_head[team])
    IN  /\ ticket_head' = [ticket_head EXCEPT ![team] = number]
        /\ tickets' = [T EXCEPT ![pk].ticket_number = number]

\* The checks at the head of Ticket.save: the error raised, or "none".
MissingField(team, owner) ==
    IF owner = NoId THEN "missing owner"
    ELSE IF team = NoId THEN "missing team"
    ELSE "none"

\* A slip of HeadAfterSave that tests the owner after the counter was
\* written.
HeadAfterLateCheck(team, owner) ==
    IF team = NoId THEN ticket_head
    ELSE [ticket_head EXCEPT ![team] = NextNumber(ticket_head[team])]

\* The Team rows after Ticket.save of a ticket with this team and owner:
\* the counter is written only when the checks have passed.
HeadAfterSave(team, owner) ==
    IF MissingField(team, owner) # "none" THEN ticket_head
    ELSE [ticket_head EXCEPT ![team] = NextNumber(ticket_head[team])]

\* Ticket(team=..., owner=...).save() on a new instance, as the model tests
\* call it: the checks, the counter, the row.  No TicketNode is made.
save(team, owner) ==
    LET err == MissingField(team, owner)
        resp(pk, status, msg) ==
            [Resp("save", pk, NoId, NoId, status, msg)
                EXCEPT !.user = owner, !.team = team]
    IN  /\ Len(tickets) < MaxTickets
        /\ team # NoId => ticket_head[team] < MaxHead
        /\ ticket_head' = HeadAfterSave(team, owner)
        /\ IF err # "none"
           THEN /\ Handled(resp(NoId, 500, err))
                /\ UNCHANGED <<tickets, created_number>>
           ELSE /\ tickets' = Append(tickets,
                        TicketRow(team, owner, NoId, ticket_head'[team], FALSE))
                /\ created_number' = Append(created_number, ticket_head'[team])
                /\ Handled(resp(Len(tickets) + 1, 200, "saved"))
        /\ UNCHANGED <<nodes, failed_creates, saves, others>>

\* The payload of a PUT: the assigned user, the status (NoId: none given),
\* a parent and a tag list.
Payload(assigned, status, parent, tag_list) ==
    [assigned_user |-> assigned, status |-> status, parent |-> parent,
     tag_list |-> tag_list]

\* PUT ticket-detail by a user with a role in the ticket's team: the
\* permissions, the validation of the payload, TicketSerializer.update (the
\* tags, the dropped parent) and ModelSerializer.update, which sets the
\* fields and saves the instance.
update(user, role, pk, data) ==
    LET code == Checked("PUT", user, role, pk)
        resp(status, msg) ==
            [Resp("update", pk, data.parent, NoId, status, msg)
                EXCEPT !.user = user, !.role = role, !.tag_list = data.tag_list]
    IN  /\ IF code # 200
           THEN /\ Handled(resp(code, Refusal(code)))
                /\ UNCHANGED <<ticket_head, tickets, nodes, ticket_tags, tag_seq>>
           ELSE IF \/ data.status # NoId /\ data.status \notin statuses
                   \/ ~(data.tag_list.tags \subseteq tags)
           THEN /\ Handled(resp(400, "validation error"))
                /\ UNCHANGED <<ticket_head, tickets, nodes, ticket_tags, tag_seq>>
           ELSE LET tagged == UpdateTags(ticket_tags, tag_seq, data.tag_list, pk)
                    row == [tickets[pk] EXCEPT
                               !.assigned_user = data.assigned_user,
                               !.status = IF data.status = NoId THEN @
                                          ELSE data.status]
                IN  /\ ticket_head[tickets[pk].team] < MaxHead
                    /\ tagged.seq <= MaxTagRows
                    /\ ticket_tags' = tagged.rows
                    /\ tag_seq' = tagged.seq
                    /\ nodes' = UpdateTree(nodes, pk, data.parent)
                    /\ SaveExisting(pk, row)
                    /\ Handled(resp(200, "okay"))
        /\ UNCHANGED <<created_number, failed_creates, saves, statuses, tags,
                       attaching>>

\* A PUT of the assigned user alone, by an admin of the team.
Update(pk, assigned) ==
    \E user \in Users :
        update(user, "AD", pk, Payload(assigned, NoId, NoId, NoTagList))

\* TicketViewSet.update_status: request.data is called like a function, which
\* raises TypeError before anything is saved.
UpdateStatus(pk) ==
    /\ Handled(IF Exists(pk)
               THEN Resp("update_status", pk, NoId, NoId, 500, "TypeError")
               ELSE Resp("update_status", pk, NoId, NoId, 404, "Not found."))
    /\ UNCHANGED <<ticket_head, tickets, nodes, created_number, failed_creates,
                   saves, others>>

\* A slip of Deactivate that also deactivates the tickets below pk.
DeactivateCascade(T, pk) ==
    [q \in DOMAIN T |->
        IF q = pk \/ \E n \in NodesOf(nodes, q), m \in NodesOf(nodes, pk) :
                        is_descendant_of(n, m)
        THEN [T[q] EXCEPT !.deactivated = TRUE]
        ELSE T[q]]

\* instance.deactivated = timezone.now()
Deactivate(T, pk) == [T EXCEPT ![pk].deactivated = TRUE]

\* TicketViewSet.delete by a user with a role in the ticket's team: the
\* permissions, then deactivated is set and the instance saved.
delete(user, role, pk) ==
    LET code == Checked("DELETE", user, role, pk)
    IN  /\ IF code # 200
           THEN /\ Handled(By(Resp("delete", pk, NoId, NoId, code, Refusal(code)),
                              user, role))
                /\ UNCHANGED <<ticket_head, tickets>>
           ELSE /\ ticket_head[tickets[pk].team] < MaxHead
                /\ SaveRowOf(Deactivate(tickets, pk), pk)
                /\ Handled(By(Resp("delete", pk, NoId, NoId, 200, "okay"),
                              user, role))
        /\ UNCHANGED <<nodes, created_number, failed_creates, saves, others>>

\* A delete by an admin of the team.
Delete(pk) == \E user \in Users : delete(user, "AD", pk)

\* A slip of retrieve_by_user that puts the owner and the assigned user in
\* one conjunction.
retrieve_by_user_both(T, user, team) ==
    {pk \in Persisted(T) :
        /\ T[pk].team = team
        /\ T[pk].deactivated = FALSE
        /\ T[pk].owner = user /\ T[pk].assigned_user = user}

\* Ticket.retrieve_by_user: the filter of the three Q conditions.
retrieve_by_user(T, user, team) ==
    {pk \in Persisted(T) :
        /\ T[pk].team = team
        /\ T[pk].deactivated = FALSE
        /\ T[pk].owner = user \/ T[pk].assigned_user = user}

\* TicketViewSet.retrieve_user_tickets, a GET with the key of a team, by a
\* user with a role in that team: the object permissions are checked for
\* every ticket of the result.
retrieve_user_tickets(user, role, team) ==
    LET found == retrieve_by_user(tickets, user, team)
        resp(status, msg, listed) ==
            [Resp("retrieve_user_tickets", NoId, NoId, NoId, status, msg)
                EXCEPT !.user = user, !.role = role, !.team = team,
                       !.listed = listed]
    IN  /\ Handled(IF ~IsAuthenticated(user)
                   THEN resp(403, Refusal(403), {})
                   ELSE IF team \notin Teams
                   THEN resp(404, Refusal(404), {})
                   ELSE IF \E pk \in found :
                              ~Permitted("GET", user, role, tickets[pk])
                   THEN resp(403, Refusal(403), {})
                   ELSE resp(200, "okay", found))
        /\ UNCHANGED <<ticket_head, tickets, nodes, created_number,
                       failed_creates, saves, others>>

\* DELETE on a TicketStatus (DestroyModelMixin.destroy: instance.delete()).
\* Ticket.status is a foreign key with on_delete=CASCADE, so the tickets that
\* have the status are deleted with it, and with them the rows that point at
\* them (the foreign keys to Ticket cascade as well).
DestroyStatus(status) ==
    IF status \in statuses
    THEN LET gone == {pk \in Persisted(tickets) : tickets[pk].status = status}
         IN  /\ statuses' = statuses \ {status}
             /\ tickets' = [pk \in DOMAIN tickets |->
                               IF pk \in gone THEN NoRow ELSE tickets[pk]]
             /\ nodes' = {n \in nodes : n.ticket \notin gone}
             /\ ticket_tags' = {r \in ticket_tags : r.ticket \notin gone}
             /\ Handled(Resp("destroy_status", status, NoId, NoId, 204, ""))
             /\ UNCHANGED <<ticket_head, created_number, failed_creates, saves,
                            tag_seq, tags, attaching>>
    ELSE /\ Handled(Resp("destroy_status", status, NoId, NoId, 404, "Not found."))
         /\ UNCHANGED <<ticket_head, tickets, nodes, created_number,
                        failed_creates, saves, others>>

\* DELETE on a Tag: the TicketTag rows of the tag go with it; the tickets
\* stay.
DestroyTag(tag) ==
    IF tag \in tags
    THEN /\ tags' = tags \ {tag}
         /\ ticket_tags' = {r \in ticket_tags : r.tag # tag}
         /\ Handled(Resp("destroy_tag", tag, NoId, NoId, 204, ""))
         /\ UNCHANGED <<ticket_head, tickets, nodes, created_number,
                        failed_creates, saves, tag_seq, statuses, attaching>>
    ELSE /\ Handled(Resp("destroy_tag", tag, NoId, NoId, 404, "Not found."))
         /\ UNCHANGED <<ticket_head, tickets, nodes, created_number,
                        failed_creates, saves, others>>

\* The treebeard exceptions _add_subticket turns into a 400.
CaughtTreeErrors ==
    {"InvalidMoveToDescendant", "InvalidPosition", "NodeAlreadySaved",
     "PathOverflow"}

TreeOutcome(N, r) ==
    IF r.exc = "none"
    THEN [status |-> 200, msg |-> "okay", nodes |-> r.nodes]
    ELSE IF r.exc \in CaughtTreeErrors
    THEN [status |-> 400, msg |-> "invalid tree operation", nodes |-> N]
    ELSE [status |-> 500, msg |-> r.exc, nodes |-> N]

\* TicketViewSet._add_subticket: the set of outcomes for two tickets that
\* exist.
_add_subticket(N, parent, child) ==
    IF NodesOf(N, parent) = {}
    THEN {[status |-> 404, msg |-> "Not found.", nodes |-> N]}
    ELSE IF Cardinality(NodesOf(N, parent)) > 1
    THEN {[status |-> 500, msg |-> "MultipleObjectsReturned", nodes |-> N]}
    ELSE IF NodesOf(N, child) = {}
    THEN {TreeOutcome(N, add_child(N, TheNode(N, parent), child))}
    ELSE IF Cardinality(NodesOf(N, child)) # 1
    THEN {[status |-> 400, msg |-> "SuspiciousOperation", nodes |-> N]}
    ELSE IF is_root(TheNode(N, child))
    THEN {TreeOutcome(N, r) : r \in move(N, TheNode(N, child), TheNode(N, parent))}
    ELSE {[status |-> 400, msg |-> "ticket already part of a graph", nodes |-> N]}

Attach(op, parent, child) ==
    /\ IF Exists(parent) /\ Exists(child)
       THEN \E out \in _add_subticket(nodes, parent, child) :
               /\ nodes' = out.nodes
               /\ Handled(Resp(op, NoId, parent, child, out.status, out.msg))
       ELSE /\ UNCHANGED nodes
            /\ Handled(Resp(op, NoId, parent, child, 404, "Not found."))
    /\ UNCHANGED <<ticket_head, tickets, created_number, failed_creates, saves,
                   others>>

\* PATCH add_subticket on the parent, with child_id in the body.
AddSubticket(pk, child_id) == Attach("add_subticket", pk, child_id)

\* PATCH add_as_subticket on the child, with parent_id in the body.
AddAsSubticket(pk, parent_id) == Attach("add_as_subticket", parent_id, pk)

(***************************************************************************)
(* Ticket.save as the steps other requests can run between: the team row   *)
(* is read, the team row is written, the ticket row is written; a create   *)
(* then inserts the root node.                                             *)
(***************************************************************************)
InFlightCreates == Cardinality({p \in Procs : saves[p].kind = "create"})

\* create_record starts: the serializer has loaded the team row.
BeginCreate(p, team, owner) ==
    /\ saves[p].pc = "idle"
    /\ Len(tickets) + InFlightCreates < MaxConcTickets
    /\ ticket_head[team] < MaxConcHead
    /\ saves' = [saves EXCEPT ![p] =
                    [pc |-> "loaded", kind |-> "create", team |-> team,
                     head |-> ticket_head[team], pk |-> NoId,
                     row |-> TicketRow(team, owner, NoId, 0, FALSE)]]
    /\ UNCHANGED <<ticket_head, tickets, nodes, response, prev_nodes,
                   created_number, failed_creates, others>>

\* delete starts: the instance and its team row are loaded, deactivated is set.
BeginDelete(p, pk) ==
    /\ saves[p].pc = "idle"
    /\ Exists(pk)
    /\ ticket_head[tickets[pk].team] < MaxConcHead
    /\ saves' = [saves EXCEPT ![p] =
                    [pc |-> "loaded", kind |-> "delete", team |-> tickets[pk].team,
                     head |-> ticket_head[tickets[pk].team], pk |-> pk,
                     row |-> [tickets[pk] EXCEPT !.deactivated = TRUE]]]
    /\ UNCHANGED <<ticket_head, tickets, nodes, response, prev_nodes,
                   created_number, failed_creates, others>>

\* team.ticket_head += 1; team.save()
SaveTeam(p) ==
    /\ saves[p].pc = "loaded"
    /\ ticket_head' = [ticket_head EXCEPT ![saves[p].team] = NextNumber(saves[p].head)]
    /\ saves' = [saves EXCEPT ![p].pc = "team_saved"]
    /\ UNCHANGED <<tickets, nodes, response, prev_nodes, created_number,
                   failed_creates, others>>

\* self.ticket_number = team.ticket_head; super().save()
SaveTicket(p) ==
    /\ saves[p].pc = "team_saved"
    /\ LET row == [saves[p].row EXCEPT !.ticket_number = NextNumber(saves[p].head)]
       IN  IF saves[p].kind = "create"
           THEN /\ tickets' = Append(tickets, row)
                /\ created_number' = Append(created_number, row.ticket_number)
                /\ saves' = [saves EXCEPT ![p].pc = "ticket_saved",
                                          ![p].pk = Len(tickets) + 1]
                /\ UNCHANGED <<response, prev_nodes>>
           ELSE /\ tickets' = [tickets EXCEPT ![saves[p].pk] = row]
                /\ saves' = [saves EXCEPT ![p] = Idle]
                /\ Handled(Resp("delete", saves[p].pk, NoId, NoId, 200, "okay"))
                /\ UNCHANGED created_number
    /\ UNCHANGED <<ticket_head, nodes, failed_creates, others>>

\* TicketNode.add_root(ticket=ticket), and the 201.
InsertRoot(p) ==
    /\ saves[p].pc = "ticket_saved"
    /\ nodes' = add_root(nodes, saves[p].pk).nodes
    /\ saves' = [saves EXCEPT ![p] = Idle]
    /\ Handled(Resp("create_record", saves[p].pk, NoId, saves[p].pk, 201, "created"))
    /\ UNCHANGED <<ticket_head, tickets, created_number, failed_creates, others>>

(***************************************************************************)
(* _add_subticket as the steps other requests can run between: the nodes   *)
(* of parent and child are read into instances, then the tree call is made *)
(* with those instances on the table as it is by then.  No transaction and *)
(* no lock surrounds the two.                                              *)
(***************************************************************************)
Attaching(p) == attaching[p].pc # "idle"

\* The slot of a worker whose _add_subticket has answered.
AttachDone(parent, child, base, status, msg) ==
    [NotAttaching EXCEPT !.pc = "done", !.parent = parent, !.child = child,
                         !.base = base, !.status = status, !.msg = msg]

\* parent_node = get_object_or_404(...); ticket_node_filter = ...filter(...);
\* ticket_node = ticket_node_filter[0], for two tickets that exist, while no
\* other attachment has answered.
BeginAttach(p, parent, child) ==
    /\ attaching[p].pc = "idle"
    /\ \A q \in Procs : attaching[q].pc # "done"
    /\ Exists(parent) /\ Exists(child)
    /\ attaching' = [attaching EXCEPT ![p] =
          IF NodesOf(nodes, parent) = {}
          THEN AttachDone(parent, child, nodes, 404, "Not found.")
          ELSE IF Cardinality(NodesOf(nodes, parent)) > 1
          THEN AttachDone(parent, child, nodes, 500, "MultipleObjectsReturned")
          ELSE IF Cardinality(NodesOf(nodes, child)) > 1
          THEN AttachDone(parent, child, nodes, 400, "SuspiciousOperation")
          ELSE [NotAttaching EXCEPT
                    !.pc = "loaded", !.parent = parent, !.child = child,
                    !.base = nodes,
                    !.parent_node = TheNode(nodes, parent),
                    !.child_node = IF NodesOf(nodes, child) = {} THEN NoNode
                                   ELSE TheNode(nodes, child)]]
    /\ UNCHANGED <<ticket_head, tickets, nodes, response, prev_nodes,
                   created_number, failed_creates, saves, ticket_tags, tag_seq,
                   statuses, tags>>

\* ticket_node.is_root(), then ticket_node.move(...) or the refusal, or
\* parent_node.add_child(...): on the instances read before.
FinishAttach(p) ==
    /\ attaching[p].pc = "loaded"
    /\ LET a == attaching[p]
           outs == IF a.child_node = NoNode
                   THEN {TreeOutcome(nodes, add_child(nodes, a.parent_node, a.child))}
                   ELSE IF is_root(a.child_node)
                   THEN {TreeOutcome(nodes, r) :
                            r \in move(nodes, a.child_node, a.parent_node)}
                   ELSE {[status |-> 400, msg |-> "ticket already part of a graph",
                          nodes |-> nodes]}
       IN  \E out \in outs :
              /\ nodes' = out.nodes
              /\ attaching' = [attaching EXCEPT ![p] =
                     AttachDone(a.parent, a.child, a.base, out.status, out.msg)]
              /\ Handled(Resp("add_subticket", NoId, a.parent, a.child,
                              out.status, out.msg))
    /\ UNCHANGED <<ticket_head, tickets, created_number, failed_creates, saves,
                   ticket_tags, tag_seq, statuses, tags>>

(***************************************************************************)
(* The specifications: requests handled one at a time, and ticket saves    *)
(* of concurrent requests interleaved.                                     *)
(***************************************************************************)
\* Requests handled one at a time: the tree handlers.
NextTree ==
    \/ \E team \in Teams, owner \in Users, parent_id \in {NoId} \cup TicketIds :
          CreateRecord(team, owner, parent_id)
    \/ \E pk \in RequestIds, child_id \in RequestIds : AddSubticket(pk, child_id)
    \/ \E pk \in RequestIds, parent_id \in RequestIds : AddAsSubticket(pk, parent_id)

SpecTree == Init /\ [][NextTree]_vars

\* The tree handlers on the tickets of one team: the tree calls read no team.
NextOneTeam ==
    \/ \E owner \in Users, parent_id \in {NoId} \cup TicketIds :
          CreateRecord(1, owner, parent_id)
    \/ \E pk \in RequestIds, child_id \in RequestIds : AddSubticket(pk, child_id)
    \/ \E pk \in RequestIds, parent_id \in RequestIds : AddAsSubticket(pk, parent_id)

SpecOneTeam == Init /\ [][NextOneTeam]_vars

\* Requests handled one at a time: the handlers that save a ticket.
NextNumbering ==
    \/ \E team \in Teams, owner \in Users, parent_id \in {NoId} \cup TicketIds :
          CreateRecord(team, owner, parent_id)
    \/ \E pk \in RequestIds, assigned \in {NoId} \cup Users : Update(pk, assigned)
    \/ \E pk \in RequestIds : UpdateStatus(pk)
    \/ \E pk \in RequestIds : Delete(pk)

SpecNumbering == Init /\ [][NextNumbering]_vars

\* Every handler.  (Its state space is the product of the two above; the
\* properties are checked under the specifications that hold the handlers
\* they are about.)
Next == NextTree \/ NextNumbering

Spec == Init /\ [][Next]_vars

\* The tag lists of one team's tickets: created with a list, updated with a
\* list.
NextTags ==
    \/ \E owner \in Users, tag_list \in TagLists :
          /\ Len(tickets) < MaxTagTickets
          /\ create_record(1, owner, NoId, NoId, tag_list)
    \/ \E user \in Users, pk \in RequestIds, tag_list \in TagLists :
          update(user, "AD", pk, Payload(NoId, NoId, NoId, tag_list))

SpecTags == Init /\ [][NextTags]_vars

\* The tickets of two users in two teams, assigned, deactivated and listed.
NextList ==
    \/ \E team \in Teams, owner \in TeamUsers :
          /\ Len(tickets) < MaxListTickets
          /\ ticket_head[team] < MaxListHead
          /\ CreateRecord(team, owner, NoId)
    \/ \E user \in Users, pk \in RequestIds, assigned \in {NoId} \cup TeamUsers :
          /\ \A team \in Teams : ticket_head[team] < MaxListHead
          /\ update(user, "AD", pk, Payload(assigned, NoId, NoId, NoTagList))
    \/ \E pk \in RequestIds :
          /\ \A team \in Teams : ticket_head[team] < MaxListHead
          /\ Delete(pk)
    \/ \E user \in TeamUsers, role \in {"none", "AP"}, team \in Teams :
          retrieve_user_tickets(user, role, team)

SpecList == Init /\ [][NextList]_vars

\* The tree of one team's tickets (made under parents that exist, and by
\* attaching), and delete.
NextFrame ==
    \/ \E owner \in Users, parent_id \in {NoId} \cup DOMAIN tickets :
          CreateRecord(1, owner, parent_id)
    \/ \E pk \in RequestIds, child_id \in RequestIds : AddSubticket(pk, child_id)
    \/ \E pk \in RequestIds : Delete(pk)

SpecFrame == Init /\ [][NextFrame]_vars

\* The same tree, and update with a payload that names a parent.
NextReparent ==
    \/ \E owner \in Users, parent_id \in {NoId} \cup DOMAIN tickets :
          CreateRecord(1, owner, parent_id)
    \/ \E pk \in RequestIds, child_id \in RequestIds : AddSubticket(pk, child_id)
    \/ \E user \in Users, pk \in RequestIds, parent \in {NoId} \cup RequestIds :
          update(user, "AD", pk, Payload(NoId, NoId, parent, NoTagList))

SpecReparent == Init /\ [][NextReparent]_vars

\* One team's tickets with a status and tags, deactivated, and the statuses
\* and tags destroyed.
NextDestroy ==
    \/ \E owner \in Users, status \in {NoId} \cup StatusIds,
          tag_list \in {NoTagList, TagList({1})} :
          create_record(1, owner, NoId, status, tag_list)
    \/ \E user \in Users, pk \in RequestIds, status \in {NoId} \cup StatusIds :
          update(user, "AD", pk, Payload(NoId, status, NoId, NoTagList))
    \/ \E pk \in RequestIds : Delete(pk)
    \/ \E status \in StatusIds : DestroyStatus(status)
    \/ \E tag \in TagIds : DestroyTag(tag)

SpecDestroy == Init /\ [][NextDestroy]_vars

\* Ticket.save on new instances, some without owner or team, and on the
\* rows they make.
NextSave ==
    \/ \E team \in {NoId} \cup Teams, owner \in {NoId} \cup Users : save(team, owner)
    \/ \E pk \in RequestIds, assigned \in {NoId} \cup Users : Update(pk, assigned)
    \/ \E pk \in RequestIds : Delete(pk)

SpecSave == Init /\ [][NextSave]_vars

\* One team's tickets, made before the attachments, and one attachment of
\* each of two workers, interleaved.
NextAttach ==
    \/ \E owner \in Users, parent_id \in {NoId} \cup DOMAIN tickets :
          /\ \A p \in Procs : ~Attaching(p)
          /\ CreateRecord(1, owner, parent_id)
    \/ \E p \in Procs, parent \in DOMAIN tickets, child \in DOMAIN tickets :
          BeginAttach(p, parent, child)
    \/ \E p \in Procs : FinishAttach(p)

SpecAttach == Init /\ [][NextAttach]_vars

NextConc ==
    \/ \E p \in Procs, team \in Teams, owner \in Users : BeginCreate(p, team, owner)
    \/ \E p \in Procs, pk \in TicketIds : BeginDelete(p, pk)
    \/ \E p \in Procs : SaveTeam(p)
    \/ \E p \in Procs : SaveTicket(p)
    \/ \E p \in Procs : InsertRoot(p)

SpecConc == Init /\ [][NextConc]_vars

(***************************************************************************)
(* The claims.                                                             *)
(***************************************************************************)
AttachOps == {"add_subticket", "add_as_subticket"}

SameTeam(i, j) == tickets[i].team = tickets[j].team

\* C1: no two persisted tickets of a team have the same ticket_number, under
\* any interleaving of concurrent creations in the team.
C1_UniqueTicketNumbers ==
    \A i, j \in DOMAIN tickets :
        (i # j /\ SameTeam(i, j))
            => tickets[i].ticket_number # tickets[j].ticket_number

\* C2: the persisted ticket_number of every ticket is the number it received
\* when it was created, after any update, update_status and delete.
C2_NumberImmutable ==
    \A pk \in DOMAIN tickets : tickets[pk].ticket_number = created_number[pk]

\* C3: no step lowers the persisted ticket_head of a team, under any
\* interleaving of ticket saves.
C3_HeadNeverDecreases ==
    [][\A t \in Teams : ticket_head'[t] >= ticket_head[t]]_vars

\* C4: in a team where no creation has failed, the k-th ticket created
\* received ticket_number k, whatever updates, status changes and
\* deactivations were handled between the creations.
C4_SequentialNumbers ==
    \A t \in Teams :
        ({pk \in failed_creates : tickets[pk].team = t} = {})
            => \A pk \in DOMAIN tickets :
                  tickets[pk].team = t
                      => created_number[pk]
                            = Cardinality({q \in 1..pk : tickets[q].team = t})

\* The node of a ticket that has exactly one, in a TicketNode table.
HasOneNode(N, t) == Cardinality(NodesOf(N, t)) = 1

\* The row one level above n exists.
HasParentRow(N, n) == PathTaken(N, BasePath(n.path))

Range(f) == {f[i] : i \in DOMAIN f}

\* C5: from every ticket's node the parent links lead to a root (every
\* prefix of its path is the path of a row) and never meet the ticket again.
C5_NoTicketItsOwnAncestor ==
    \A n \in nodes :
        /\ \A k \in 1..(Len(n.path) - 1) : PathTaken(nodes, SubSeq(n.path, 1, k))
        /\ \A m \in nodes : is_descendant_of(n, m) => m.ticket # n.ticket

\* C6: every ticket whose create_record was answered 201 has exactly one
\* node, and the node is at depth 1 or the row one level above it exists.
\* (A request that is refused after a create was answered 201 changes no row.)
C6_OneNodePerTicket ==
    \A pk \in DOMAIN tickets \ failed_creates :
        /\ HasOneNode(nodes, pk)
        /\ \A n \in NodesOf(nodes, pk) : depth(n) = 1 \/ HasParentRow(nodes, n)

\* The last request attached response.child under response.parent, both
\* tickets with one node before it.
AttachOfTwoNodes ==
    /\ response.op \in AttachOps
    /\ Exists(response.parent) /\ Exists(response.child)
    /\ HasOneNode(prev_nodes, response.parent)
    /\ HasOneNode(prev_nodes, response.child)

PrevParent == TheNode(prev_nodes, response.parent)

PrevChild == TheNode(prev_nodes, response.child)

\* C7: an attach of a child that was a root under a parent that was neither
\* the child nor below it is answered 200, and then the child is the last of
\* the parent's children, is no root and has the parent among its ancestors.
C7_AttachRootMoves ==
    (/\ AttachOfTwoNodes
     /\ depth(PrevChild) = 1
     /\ response.parent # response.child
     /\ ~is_descendant_of(PrevParent, PrevChild))
        => /\ response.status = 200
           /\ HasOneNode(nodes, response.parent) /\ HasOneNode(nodes, response.child)
           /\ LET kids == children_of(nodes, response.parent)
              IN  kids # <<>> /\ kids[Len(kids)] = response.child
           /\ depth(TheNode(nodes, response.child)) > 1
           /\ response.parent \in Range(ancestors_of(nodes, response.child))

\* The case of C8: the child was below a parent row before the request.
C8_Case ==
    /\ AttachOfTwoNodes
    /\ depth(PrevChild) > 1
    /\ HasParentRow(prev_nodes, PrevChild)

\* C8: an attach of a child that already has a parent is answered 400
\* "ticket already part of a graph" and leaves the TicketNode table as it was.
C8_AlreadyAttached ==
    C8_Case => /\ response.status = 400
               /\ response.msg = "ticket already part of a graph"
               /\ nodes = prev_nodes

\* C8's case happened: a child below one parent was sent under another
\* ticket and refused.
C8_Witness ==
    /\ C8_Case
    /\ response.msg = "ticket already part of a graph"
    /\ response.parent # response.child
    /\ \E m \in prev_nodes : /\ m.path = BasePath(PrevChild.path)
                             /\ m.ticket # response.parent

\* C9: every ticket's ancestors in the tree belong to the ticket's own team.
C9_SameTeamAncestors ==
    \A n, m \in nodes :
        (is_descendant_of(n, m) /\ Exists(n.ticket) /\ Exists(m.ticket))
            => SameTeam(n.ticket, m.ticket)

\* C10: an attach of a ticket under itself or under one of its descendants
\* is answered 400 "invalid tree operation" and leaves the TicketNode table
\* as it was.
C10_CycleRejected ==
    (/\ AttachOfTwoNodes
     /\ \/ response.parent = response.child
        \/ is_descendant_of(PrevParent, PrevChild))
        => /\ response.status = 400
           /\ response.msg = "invalid tree operation"
           /\ nodes = prev_nodes

Qualifies(pk) ==
    /\ tickets[pk].team = response.team
    /\ ~tickets[pk].deactivated
    /\ tickets[pk].owner = response.user \/ tickets[pk].assigned_user = response.user

\* C12: the tickets a retrieve_user_tickets answered 200 returns are rows of
\* the team asked for, not deactivated, owned by or assigned to the
\* requester, and every such row is among them.
C12_ListForUser ==
    (response.op = "retrieve_user_tickets" /\ response.status = 200)
        => /\ \A pk \in response.listed : Exists(pk) /\ Qualifies(pk)
           /\ \A pk \in Persisted(tickets) : Qualifies(pk) => pk \in response.listed

\* C12's case happened: the list holds a ticket the requester is assigned
\* and does not own, and leaves out a ticket of the same team.
C12_Witness ==
    /\ response.op = "retrieve_user_tickets"
    /\ response.status = 200
    /\ \E pk \in response.listed : tickets[pk].owner # response.user
    /\ \E pk \in Persisted(tickets) \ response.listed :
          tickets[pk].team = response.team

C17_UpdateKeepsTree ==
    response.op = "update" => nodes = prev_nodes

\* C17's case happened: an update answered 200 named as parent another
\* ticket, while the updated ticket is a root the parent is not below.
C17_Witness ==
    /\ response.op = "update"
    /\ response.status = 200
    /\ response.parent # NoId
    /\ response.parent # response.pk
    /\ HasOneNode(nodes, response.pk) /\ HasOneNode(nodes, response.parent)
    /\ is_root(TheNode(nodes, response.pk))
    /\ ~is_descendant_of(TheNode(nodes, response.parent),
                         TheNode(nodes, response.pk))

\* C14: no step removes a row of the Ticket table, whatever ticket, status
\* and tag request is handled.
C14_NoTicketRowRemoved ==
    [][Persisted(tickets) \subseteq Persisted(tickets')]_vars

\* C15: a ticket whose create_record failed after its row was saved is not
\* left in the table as an active row, and the number it took is the number
\* of no ticket created later in the team.
C15_FailedCreateNotActive ==
    \A pk \in failed_creates :
        /\ ~Exists(pk) \/ tickets[pk].deactivated
        /\ \A q \in DOMAIN tickets :
              (q > pk /\ Exists(q) /\ Exists(pk) /\ SameTeam(pk, q))
                  => created_number[q] # created_number[pk]

\* C16: a save of a ticket without owner or without team raises the error
\* of the missing field and leaves every ticket_head and the Ticket table as
\* they were.
C16_MissingFieldFailsFirst ==
    [][(/\ response'.op = "save"
        /\ response'.user = NoId \/ response'.team = NoId)
          => /\ response'.msg \in {"missing owner", "missing team"}
             /\ response'.status # 200
             /\ ticket_head' = ticket_head
             /\ tickets' = tickets]_vars

\* C16's case happened: with tickets in the table and a counter that has
\* moved, a save with a team and without owner was refused.
C16_Witness ==
    /\ response.op = "save"
    /\ response.user = NoId
    /\ response.team \in Teams
    /\ response.msg = "missing owner"
    /\ ticket_head[response.team] > 0
    /\ Len(tickets) > 0

\* What a finished _add_subticket answered.
AttachResult(a) == [status |-> a.status, msg |-> a.msg]

\* The outcomes of handling the attachment a and then the attachment b, one
\* after the other, on the TicketNode table N.
SerialRuns(N, a, b) ==
    UNION {{[nodes |-> o2.nodes,
             first |-> [status |-> o1.status, msg |-> o1.msg],
             second |-> [status |-> o2.status, msg |-> o2.msg]] :
               o2 \in _add_subticket(o1.nodes, b.parent, b.child)} :
           o1 \in _add_subticket(N, a.parent, a.child)}

\* Two attachments that both read the table before either changed it, both
\* answered, and that name a common ticket.
OverlappingAttachments(p, q) ==
    /\ p # q
    /\ attaching[p].pc = "done" /\ attaching[q].pc = "done"
    /\ attaching[p].base = attaching[q].base
    /\ {attaching[p].parent, attaching[p].child}
           \cap {attaching[q].parent, attaching[q].child} # {}

\* The table and the answers are those of handling p's attachment and then
\* q's.
SerialAs(p, q) ==
    \E r \in SerialRuns(attaching[p].base, attaching[p], attaching[q]) :
        /\ r.nodes = nodes
        /\ r.first = AttachResult(attaching[p])
        /\ r.second = AttachResult(attaching[q])

\* C18: when two attachments that touch a common ticket were handled at the
\* same time, the TicketNode table and the two answers are those of handling
\* the two one after the other, in one of the two orders.
C18_ConcurrentAttachSerial ==
    \A p, q \in Procs :
        OverlappingAttachments(p, q) => SerialAs(p, q) \/ SerialAs(q, p)

\* The requesters of a ticket's detail routes: nobody signed in, or a user
\* with any role in the ticket's team.
Requesters == {NoId} \cup TeamUsers

RolesOf(user) == IF user = NoId THEN {"none"} ELSE Roles

\* Tickets of two owners in one team, updated and deleted by every kind of
\* requester.
NextPerm ==
    \/ \E owner \in TeamUsers :
          /\ Len(tickets) < MaxListTickets
          /\ ticket_head[1] < MaxListHead
          /\ CreateRecord(1, owner, NoId)
    \/ \E user \in Requesters, pk \in RequestIds :
          \E role \in RolesOf(user) :
             /\ ticket_head[1] < MaxListHead
             /\ update(user, role, pk, Payload(1, NoId, NoId, NoTagList))
    \/ \E user \in Requesters, pk \in RequestIds :
          \E role \in RolesOf(user) :
             /\ ticket_head[1] < MaxListHead
             /\ delete(user, role, pk)

SpecPerm == Init /\ [][NextPerm]_vars

\* The requester of a response is refused by the claim's three cases: not
\* signed in, no member of the ticket's team, or an approved member who is
\* not the owner of the row.
RefusedRequester(resp, row) ==
    \/ resp.user = NoId
    \/ resp.role = "none"
    \/ resp.role = "AP" /\ row.owner # resp.user

\* The requester is an admin of the team, or the owner as an approved member.
OwnerOrAdmin(resp, row) ==
    \/ resp.role = "AD" /\ resp.user # NoId
    \/ resp.role = "AP" /\ row.owner = resp.user /\ resp.user # NoId

\* C19: an update or delete of a ticket that exists is answered 403 and
\* leaves the Ticket table and the counters as they were when the requester
\* is not signed in, is no member of the team, or is an approved member who
\* is neither owner nor admin; from the owner or an admin it is answered 200.
C19_OwnerOrAdminOnly ==
    [][(response'.op \in {"update", "delete"} /\ Exists(response'.pk))
          => LET row == tickets[response'.pk]
             IN  /\ RefusedRequester(response', row)
                      => /\ response'.status = 403
                         /\ tickets' = tickets
                         /\ ticket_head' = ticket_head
                 /\ OwnerOrAdmin(response', row)
                      => response'.status = 200]_vars

\* C19's case happened: an approved member who does not own the ticket was
\* refused its deletion.
C19_Witness ==
    /\ response.op = "delete"
    /\ response.status = 403
    /\ response.role = "AP"
    /\ Exists(response.pk)
    /\ response.user \notin {NoId, tickets[response.pk].owner}
    /\ ~tickets[response.pk].deactivated

\* C20: every row of the Ticket table has a ticket_number from 1 to the
\* persisted ticket_head of its team, under any interleaving of ticket saves.
C20_NumbersWithinHead ==
    \A pk \in Persisted(tickets) :
        /\ tickets[pk].ticket_number >= 1
        /\ tickets[pk].ticket_number <= ticket_head[tickets[pk].team]

\* The ticket of the row one level above the node of t, NoId for a root and
\* for a node with no row above it.
ParentTicketOf(N, t) ==
    LET n == TheNode(N, t)
        above == {m \in N : m.path = BasePath(n.path)}
    IN  IF is_root(n) \/ above = {} THEN NoId
        ELSE (CHOOSE m \in above : TRUE).ticket

\* The tickets whose nodes are below the node of t.
DescendantsOf(N, t) ==
    {n.ticket : n \in {m \in N : is_descendant_of(m, TheNode(N, t))}}

\* The case of C21: an attach answered 200 whose child was a root.
C21_Case ==
    /\ AttachOfTwoNodes
    /\ response.status = 200
    /\ depth(PrevChild) = 1

\* C21: an attach of a root child answered 200 appends the child to the
\* children of the parent, leaves the children of every other ticket as
\* they were, and leaves every descendant of the child under the same parent.
C21_AttachMovesSubtreeOnly ==
    C21_Case
        => /\ \A t \in Persisted(tickets) : HasOneNode(nodes, t) = HasOneNode(prev_nodes, t)
           /\ HasOneNode(nodes, response.parent)
           /\ children_of(nodes, response.parent)
                  = Append(children_of(prev_nodes, response.parent), response.child)
           /\ \A t \in Persisted(tickets) \ {response.parent} :
                  HasOneNode(prev_nodes, t)
                      => children_of(nodes, t) = children_of(prev_nodes, t)
           /\ \A d \in DescendantsOf(prev_nodes, response.child) :
                  /\ HasOneNode(nodes, d)
                  /\ ParentTicketOf(nodes, d) = ParentTicketOf(prev_nodes, d)

=============================================================================
